---- MODULE Spec2Model ----
(***************************************************************************)
(* Model of atopile's `ato install` command (src/atopile/cli/install.py):  *)
(* the spec splitter, the manifest editor (ato.yaml dependency list), the  *)
(* repository resolver (install_dependency), the bulk installer and the    *)
(* footprint installer (install_jlcpcb).                                   *)
(*                                                                         *)
(* Strings are TLA+ strings; positions follow Python (0-based offsets).    *)
(***************************************************************************)
EXTENDS Integers, Sequences, FiniteSets, TLC

VARIABLES
    yamlExists,   \* whether <top_level_path>/ato.yaml exists
    manifest,     \* the "dependencies" list stored in ato.yaml (on disk)
    remote,       \* package name -> set of tag names published at the package host
    repos,        \* package name -> working copy under the module directory
    last,         \* what the last command did (operation, outcome, trace, pre-state)
    sp_in,        \* input of the last split_module_spec evaluation
    sp_out        \* its result

vars == <<yamlExists, manifest, remote, repos, last, sp_in, sp_out>>

\* Optional[str]: Python's None, and a present string
None == [some |-> FALSE, val |-> ""]
Some(x) == [some |-> TRUE, val |-> x]

(***************************************************************************)
(* Bounds                                                                  *)
(***************************************************************************)
\* longest generated component id of install_jlcpcb
ComponentLen == 3

\* longest generated input string of split_module_spec
MaxLen == 4

(***************************************************************************)
(* Python string primitives                                                *)
(***************************************************************************)
\* s[a:b] for 0 <= a, b <= len(s)
Slice(s, a, b) == SubSeq(s, a + 1, b)

\* `t in s`
Contains(s, t) ==
    \E i \in 0..(Len(s) - Len(t)) : Slice(s, i, i + Len(t)) = t

\* s.find(t): the lowest offset of t in s, -1 when absent
Find(s, t) ==
    IF Contains(s, t)
    THEN CHOOSE i \in 0..(Len(s) - Len(t)) :
            /\ Slice(s, i, i + Len(t)) = t
            /\ \A j \in 0..(i - 1) : Slice(s, j, j + Len(t)) # t
    ELSE -1

\* s.startswith(t)
StartsWith(s, t) == Len(t) <= Len(s) /\ Slice(s, 0, Len(t)) = t

RECURSIVE LStripChars(_, _)
LStripChars(s, c) ==
    IF Len(s) > 0 /\ Slice(s, 0, 1) = c THEN LStripChars(Slice(s, 1, Len(s)), c) ELSE s

RECURSIVE RStripChars(_, _)
RStripChars(s, c) ==
    IF Len(s) > 0 /\ Slice(s, Len(s) - 1, Len(s)) = c
    THEN RStripChars(Slice(s, 0, Len(s) - 1), c)
    ELSE s

\* s.strip(c) for a single character c
StripChars(s, c) == RStripChars(LStripChars(s, c), c)

\* s.strip(): the only whitespace character of the model is the blank
Strip(s) == StripChars(s, " ")

(***************************************************************************)
(* atopile.version.OPERATORS, in its order                                 *)
(***************************************************************************)
OPERATORS == <<"*", "^", "~", "!", "==", ">=", "<=", ">", "<">>

\* chain(version.OPERATORS, (" ", "@"))
Splitters == OPERATORS \o <<" ", "@">>

(***************************************************************************)
(* split_module_spec                                                       *)
(***************************************************************************)
\* the split at one splitter: (module_name, version_spec)
SplitAt(spec, loc) ==
    <<Strip(Slice(spec, 0, loc)), Some(Strip(Slice(spec, loc, Len(spec))))>>

RECURSIVE SplitFrom(_, _)
SplitFrom(spec, k) ==
    IF k > Len(Splitters) THEN <<spec, None>>
    ELSE IF Contains(spec, Splitters[k])
         THEN LET splitter_loc == Find(spec, Splitters[k])
              IN  IF splitter_loc < 0 THEN SplitFrom(spec, k + 1)
                  ELSE SplitAt(spec, splitter_loc)
         ELSE SplitFrom(spec, k + 1)

split_module_spec(spec) == SplitFrom(spec, 1)

(***************************************************************************)
(* atopile.version: Version, parse, str, match.  A Version is the triple   *)
(* <<major, minor, patch>>, ordered lexicographically.                     *)
(***************************************************************************)
Digits == "0123456789"

IsDigit(c) == Len(c) = 1 /\ Contains(Digits, c)

\* str.isdigit(): non-empty and all digits
IsDigitStr(s) == Len(s) > 0 /\ \A i \in 0..(Len(s) - 1) : IsDigit(Slice(s, i, i + 1))

RECURSIVE NatOfStr(_)
NatOfStr(s) ==
    IF Len(s) = 0 THEN 0
    ELSE 10 * NatOfStr(Slice(s, 0, Len(s) - 1)) + Find(Digits, Slice(s, Len(s) - 1, Len(s)))

RECURSIVE StrOfNat(_)
StrOfNat(n) ==
    IF n < 10 THEN Slice(Digits, n, n + 1)
    ELSE StrOfNat(n \div 10) \o Slice(Digits, (n % 10), (n % 10) + 1)

\* s.split(".")
RECURSIVE SplitDots(_)
SplitDots(s) ==
    LET i == Find(s, ".")
    IN  IF i < 0 THEN <<s>>
        ELSE <<Slice(s, 0, i)>> \o SplitDots(Slice(s, i + 1, Len(s)))

\* a numeric identifier of a semantic version: digits, no leading zero
IsNumericId(s) == IsDigitStr(s) /\ (Len(s) = 1 \/ Slice(s, 0, 1) # "0")

NoVersion == [ok |-> FALSE, v |-> <<0, 0, 0>>]

\* version.parse: the Version of a conforming "major.minor.patch", else an error
VersionOf(parts) ==
    IF Len(parts) = 3 /\ \A i \in 1..3 : IsNumericId(parts[i])
    THEN [ok |-> TRUE, v |-> <<NatOfStr(parts[1]), NatOfStr(parts[2]), NatOfStr(parts[3])>>]
    ELSE NoVersion

parse(version_str) == VersionOf(SplitDots(version_str))

\* str(Version)
VersionStr(v) == StrOfNat(v[1]) \o "." \o StrOfNat(v[2]) \o "." \o StrOfNat(v[3])

\* Version.__lt__
VLess(a, b) ==
    \/ a[1] < b[1]
    \/ a[1] = b[1] /\ a[2] < b[2]
    \/ a[1] = b[1] /\ a[2] = b[2] /\ a[3] < b[3]

VLeq(a, b) == a = b \/ VLess(a, b)

\* the first version a caret range based at b excludes
CaretLimit(b) ==
    IF b[1] > 0 THEN <<b[1] + 1, 0, 0>>
    ELSE IF b[2] > 0 THEN <<0, b[2] + 1, 0>>
    ELSE <<0, 0, b[3] + 1>>

\* the operator a constraint starts with, "" when none
OperatorOf(spec) ==
    IF \E k \in 1..Len(OPERATORS) : StartsWith(spec, OPERATORS[k])
    THEN OPERATORS[CHOOSE k \in 1..Len(OPERATORS) :
            /\ StartsWith(spec, OPERATORS[k])
            /\ \A j \in 1..Len(OPERATORS) :
                  StartsWith(spec, OPERATORS[j]) => Len(OPERATORS[j]) <= Len(OPERATORS[k])]
    ELSE ""

\* the version a constraint names after its operator
BaseOf(s, op) == parse(Strip(Slice(s, Len(op), Len(s))))

CanEvaluate(s, op, base) == s = "*" \/ (op \notin {"", "*"} /\ base.ok)

\* whether version.match can evaluate the constraint at all
MatchDefined(spec) ==
    CanEvaluate(Strip(spec), OperatorOf(Strip(spec)), BaseOf(Strip(spec), OperatorOf(Strip(spec))))

Compare(s, op, b, v) ==
    CASE s = "*" -> TRUE
      [] op = "^" -> VLeq(b, v) /\ VLess(v, CaretLimit(b))
      [] op = "~" -> VLeq(b, v) /\ VLess(v, <<b[1], b[2] + 1, 0>>)
      [] op = "!" -> v # b
      [] op = "==" -> v = b
      [] op = ">=" -> VLeq(b, v)
      [] op = "<=" -> VLeq(v, b)
      [] op = ">" -> VLess(b, v)
      [] op = "<" -> VLess(v, b)
      [] OTHER -> FALSE

\* version.match(spec, v), for a constraint it can evaluate
match(spec, v) ==
    Compare(Strip(spec), OperatorOf(Strip(spec)),
            BaseOf(Strip(spec), OperatorOf(Strip(spec))).v, v)

(***************************************************************************)
(* The version-control working copies (git.Repo) and the package host      *)
(***************************************************************************)
\* the packages the host https://gitlab.atopile.io/packages/ serves
RemotePkgs == {"pkg", "lib"}

\* branches every package repository has; "main" is the default branch
Branches == {"main", "dev"}

\* the commit a tag or branch points at
CommitOf(ref) == "c:" \o ref

\* no working copy at modules_path / name
Missing == [exists |-> FALSE, head |-> "", dirty |-> FALSE, tags |-> {}]

\* Repo(modules_path / module_name)
WorkingCopy(rs, name) == IF name \in DOMAIN rs THEN rs[name] ELSE Missing

\* Repo.clone_from succeeds for the packages the host serves
CanClone(rem, name) == name \in DOMAIN rem

\* Repo.clone_from(clone_url, path): a clean copy of the default branch
Cloned(rem, name) ==
    [exists |-> TRUE, head |-> CommitOf("main"), dirty |-> FALSE, tags |-> rem[name]]

\* repo.remotes.origin.fetch(): new tags arrive, head and work tree stay
Fetched(rem, name, wc) ==
    [wc EXCEPT !.tags = @ \cup (IF name \in DOMAIN rem THEN rem[name] ELSE {})]

\* the refs `git checkout` can resolve in a working copy
Resolvable(wc, ref) == ref \in wc.tags \cup Branches

\* repo.git.checkout(ref)
CheckedOut(wc, ref) == [wc EXCEPT !.head = CommitOf(ref)]

\* one step of a command, as recorded in `last.trace`
Event(ev, pkg, ref) == [ev |-> ev, pkg |-> pkg, ref |-> ref]

(***************************************************************************)
(* install_dependency                                                      *)
(***************************************************************************)
\* the values install_dependency returns
RetNone == [kind |-> "none", name |-> ""]
RetTag(t) == [kind |-> "tag", name |-> t]
RetVersion(v) == [kind |-> "version", name |-> VersionStr(v)]

\* the outcome of a call: working copies after it, its error, value and steps
Outcome(rs, err, ret, trace) ==
    [rs |-> rs, status |-> IF err = "" THEN "ok" ELSE "error", err |-> err,
     ret |-> ret, trace |-> trace]

\* semver_to_tag: the versions of the tags that parse (the others are skipped)
SemverToTag(tags) ==
    [v \in {parse(t).v : t \in {u \in tags : parse(u).ok}} |->
        CHOOSE t \in tags : parse(t).ok /\ parse(t).v = v]

\* a slip: the lowest matching version is taken
MinVersion(S) == CHOOSE v \in S : \A w \in S : VLeq(v, w)

\* max(valid_versions)
MaxVersion(S) == CHOOSE v \in S : \A w \in S : VLeq(w, v)

\* a slip: the call always reports a new ref
ReportedUsing(name, commit_before_checkout, head) == Event("report", name, "using")

\* lines 174-183: "Already on the best option" when the head commit stayed, else
\* "Using ..."
Reported(name, commit_before_checkout, head) ==
    Event("report", name, IF head = commit_before_checkout THEN "already" ELSE "using")

\* a slip: the checkout goes ahead on a working copy with uncommitted changes
CheckoutDirty(name, rs, wc, bound, best_checkout, installed, trace) ==
    IF ~bound
    THEN Outcome(rs, "unbound", RetNone,
                 trace \o <<Event("dirty_check", name, IF wc.dirty THEN "dirty" ELSE "clean")>>)
    ELSE Outcome([rs EXCEPT ![name] = CheckedOut(wc, best_checkout)], "",
                 IF installed THEN RetTag(best_checkout) ELSE RetNone,
                 trace \o <<Event("dirty_check", name, IF wc.dirty THEN "dirty" ELSE "clean"),
                            Event("checkout", name, best_checkout),
                            Reported(name, wc.head, CheckedOut(wc, best_checkout).head)>>)

\* lines 165-186: the dirty check, the checkout and the return value
Checkout(name, rs, wc, bound, best_checkout, installed, trace) ==
    LET t1 == trace \o <<Event("dirty_check", name, IF wc.dirty THEN "dirty" ELSE "clean")>>
    IN  IF wc.dirty
        THEN Outcome(rs, "dirty", RetNone, t1)
        ELSE IF ~bound
        THEN Outcome(rs, "unbound", RetNone, t1)
        ELSE IF ~Resolvable(wc, best_checkout)
        THEN Outcome(rs, "checkout", RetNone, t1)
        ELSE Outcome([rs EXCEPT ![name] = CheckedOut(wc, best_checkout)], "",
                     IF installed THEN RetTag(best_checkout) ELSE RetNone,
                     t1 \o <<Event("checkout", name, best_checkout),
                             Reported(name, wc.head, CheckedOut(wc, best_checkout).head)>>)

\* a slip: with no matching version the call goes on to the dirty check
SelectTagFallsBack(name, module_spec, rs, wc, semver_to_tag, valid_versions, trace) ==
    IF ~MatchDefined(module_spec)
    THEN Outcome(rs, "match", RetNone, trace)
    ELSE IF valid_versions = {}
    THEN Checkout(name, rs, wc, FALSE, "", FALSE, trace)
    ELSE Checkout(name, rs, wc, TRUE, semver_to_tag[MaxVersion(valid_versions)], TRUE, trace)

\* lines 154-158: the best tag meeting the semver spec
SelectTag(name, module_spec, rs, wc, semver_to_tag, valid_versions, trace) ==
    IF ~MatchDefined(module_spec)
    THEN Outcome(rs, "match", RetNone, trace)
    ELSE IF valid_versions = {}
    THEN Outcome(rs, "no_valid_version", RetNone, trace)
    ELSE Checkout(name, rs, wc, TRUE, semver_to_tag[MaxVersion(valid_versions)], TRUE, trace)

\* lines 151-163: the choice of what to check out
Choose(name, module_spec, rs, wc, semver_to_tag, trace) ==
    IF Contains(module_spec, "@")
    THEN Checkout(name, rs, wc, TRUE, StripChars(Strip(module_spec), "@"), FALSE, trace)
    ELSE IF DOMAIN semver_to_tag # {}
    THEN SelectTag(name, module_spec, rs, wc, semver_to_tag,
                   {v \in DOMAIN semver_to_tag : MatchDefined(module_spec) /\ match(module_spec, v)},
                   trace)
    ELSE Checkout(name, rs, wc, FALSE, "", FALSE, trace \o <<Event("warning", name, "")>>)

\* lines 142-163, on the working copy wc of the package
Select(name, module_spec, rs, wc, trace) ==
    Choose(name, module_spec, [rs EXCEPT ![name] = wc], wc, SemverToTag(wc.tags),
           trace \o <<Event("tags", name, "")>>)

\* a slip: an existing working copy is fetched and resolved without --upgrade
ProbeIgnoresUpgrade(module_name, module_spec, upgrade, yaml, rem, rs, wc) ==
    IF ~yaml
    THEN Outcome(rs, "config", RetNone, <<>>)
    ELSE IF ~wc.exists
    THEN IF ~CanClone(rem, module_name)
         THEN Outcome(rs, "clone", RetNone, <<>>)
         ELSE Select(module_name, module_spec, rs, Cloned(rem, module_name),
                     <<Event("clone", module_name, "")>>)
    ELSE Select(module_name, module_spec, rs, Fetched(rem, module_name, wc),
                <<Event("fetch", module_name, "")>>)

\* a slip: an existing working copy is checked for changes before it is fetched
ProbeChecksFirst(module_name, module_spec, upgrade, yaml, rem, rs, wc) ==
    IF ~yaml
    THEN Outcome(rs, "config", RetNone, <<>>)
    ELSE IF ~wc.exists
    THEN IF ~CanClone(rem, module_name)
         THEN Outcome(rs, "clone", RetNone, <<>>)
         ELSE Select(module_name, module_spec, rs, Cloned(rem, module_name),
                     <<Event("clone", module_name, "")>>)
    ELSE IF upgrade
    THEN IF wc.dirty
         THEN Outcome(rs, "dirty", RetNone, <<Event("dirty_check", module_name, "dirty")>>)
         ELSE Select(module_name, module_spec, rs, Fetched(rem, module_name, wc),
                     <<Event("fetch", module_name, "")>>)
    ELSE Outcome(rs, "", RetNone, <<>>)

\* lines 116-140: the working copy is cloned, fetched or left alone
Probe(module_name, module_spec, upgrade, yaml, rem, rs, wc) ==
    IF ~yaml
    THEN Outcome(rs, "config", RetNone, <<>>)
    ELSE IF ~wc.exists
    THEN IF ~CanClone(rem, module_name)
         THEN Outcome(rs, "clone", RetNone, <<>>)
         ELSE Select(module_name, module_spec, rs, Cloned(rem, module_name),
                     <<Event("clone", module_name, "")>>)
    ELSE IF upgrade
    THEN Select(module_name, module_spec, rs, Fetched(rem, module_name, wc),
                <<Event("fetch", module_name, "")>>)
    ELSE Outcome(rs, "", RetNone, <<>>)

\* lines 112-114: the version spec defaults to "*"
SpecOrAny(version_spec) ==
    IF ~version_spec.some \/ version_spec.val = "" THEN "*" ELSE version_spec.val

Resolve(sp, upgrade, yaml, rem, rs) ==
    Probe(sp[1], SpecOrAny(sp[2]), upgrade, yaml, rem, rs, WorkingCopy(rs, sp[1]))

\* install_dependency(module, top_level_path, upgrade)
install_dependency(module, upgrade, yaml, rem, rs) ==
    Resolve(split_module_spec(module), upgrade, yaml, rem, rs)

(***************************************************************************)
(* set_dependency_to_ato_yaml                                              *)
(***************************************************************************)
\* the package name of a manifest entry
NameOf(spec) == split_module_spec(spec)[1]

\* `x in dependencies`
InList(deps, x) == \E i \in 1..Len(deps) : deps[i] = x

\* {split_module_spec(x)[0]: x for x in dependencies}[name]: the last entry wins
ByName(deps, name) ==
    deps[CHOOSE i \in 1..Len(deps) :
            /\ NameOf(deps[i]) = name
            /\ \A j \in (i + 1)..Len(deps) : NameOf(deps[j]) # name]

\* a slip: the head of the list is dropped instead of x
RemoveHead(deps, x) == Tail(deps)

\* dependencies.remove(x): drops the first occurrence of x
Remove(deps, x) ==
    LET i == CHOOSE k \in 1..Len(deps) : deps[k] = x /\ \A j \in 1..(k - 1) : deps[j] # x
    IN  SubSeq(deps, 1, i - 1) \o SubSeq(deps, i + 1, Len(deps))

\* a slip: the entry of the same package is never dropped
DropNever(deps, existing_spec, module_spec) == deps

\* lines 93-95: the entry of the same package is dropped when it differs
DropIfDiffers(deps, existing_spec, module_spec) ==
    IF existing_spec # module_spec THEN Remove(deps, existing_spec) ELSE deps

\* lines 91-95
DropExisting(deps, module_spec) ==
    IF \E i \in 1..Len(deps) : NameOf(deps[i]) = NameOf(module_spec)
    THEN DropIfDiffers(deps, ByName(deps, NameOf(module_spec)), module_spec)
    ELSE deps

\* a slip: the file is written whether or not the list changed
WriteAlways(deps, dropped, module_spec) ==
    IF ~InList(dropped, module_spec)
    THEN [mem |-> Append(dropped, module_spec), wrote |-> TRUE,
          file |-> Append(dropped, module_spec)]
    ELSE [mem |-> dropped, wrote |-> TRUE, file |-> dropped]

\* lines 97-101: append and write, unless the spec is in the list
AppendAndWrite(deps, dropped, module_spec) ==
    IF ~InList(dropped, module_spec)
    THEN [mem |-> Append(dropped, module_spec), wrote |-> TRUE,
          file |-> Append(dropped, module_spec)]
    ELSE [mem |-> dropped, wrote |-> FALSE, file |-> deps]

\* lines 85-101: the list in memory, whether the file was written, the file after
set_dependency_to_ato_yaml(deps, module_spec) ==
    AppendAndWrite(deps, DropExisting(deps, module_spec), module_spec)

(***************************************************************************)
(* install_dependencies_from_yaml                                          *)
(***************************************************************************)
\* a slip: a failing dependency is recorded and the loop goes on
TurnContinues(prev, i, o) ==
    [out |-> Outcome(o.rs, IF prev.at # 0 THEN prev.out.err ELSE o.err, RetNone,
                     prev.out.trace \o o.trace),
     at |-> IF prev.at # 0 THEN prev.at ELSE IF o.err # "" THEN i ELSE 0]

\* one turn of the loop of lines 192-193: dependency i after the turns before it;
\* `at` is the index of the dependency that failed (0: none)
Turn(prev, i, o) ==
    IF prev.at # 0 THEN prev
    ELSE [out |-> Outcome(o.rs, o.err, RetNone, prev.out.trace \o o.trace),
          at |-> IF o.err # "" THEN i ELSE 0]

\* the loop of lines 192-193: run[i] is the state after the first i dependencies
InstallEach(deps, upgrade, rem, rs) ==
    LET run[i \in 0..Len(deps)] ==
            IF i = 0 THEN [out |-> Outcome(rs, "", RetNone, <<>>), at |-> 0]
            ELSE Turn(run[i - 1], i,
                      install_dependency(deps[i], upgrade, TRUE, rem, run[i - 1].out.rs))
    IN  run[Len(deps)]

install_dependencies_from_yaml(upgrade, yaml, deps, rem, rs) ==
    IF ~yaml THEN [out |-> Outcome(rs, "config", RetNone, <<>>), at |-> 0]
    ELSE InstallEach(deps, upgrade, rem, rs)

(***************************************************************************)
(* The record of the last command                                          *)
(***************************************************************************)
Pre == [manifest |-> manifest, repos |-> repos]

Last(op, arg, upgrade, o, wrote, mem, at) ==
    [op |-> op, arg |-> arg, upgrade |-> upgrade, status |-> o.status, err |-> o.err,
     ret |-> o.ret, trace |-> o.trace, wrote |-> wrote, mem |-> mem, at |-> at,
     pre |-> Pre]

NoCommand ==
    [op |-> "none", arg |-> "", upgrade |-> FALSE, status |-> "ok", err |-> "",
     ret |-> RetNone, trace |-> <<>>, wrote |-> FALSE, mem |-> <<>>, at |-> 0,
     pre |-> [manifest |-> <<>>, repos |-> [n \in RemotePkgs |-> Missing]]]

(***************************************************************************)
(* install_jlcpcb                                                          *)
(***************************************************************************)
LowerCase == "abcdefghijklmnopqrstuvwxyz"
UpperCase == "ABCDEFGHIJKLMNOPQRSTUVWXYZ"

\* str.upper() of one character
UpperChar(c) ==
    IF Contains(LowerCase, c)
    THEN Slice(UpperCase, Find(LowerCase, c), Find(LowerCase, c) + 1)
    ELSE c

\* str.upper()
RECURSIVE Upper(_)
Upper(s) ==
    IF Len(s) = 0 THEN ""
    ELSE UpperChar(Slice(s, 0, 1)) \o Upper(Slice(s, 1, Len(s)))

\* line 199: the id starts with "C" and the rest is a non-empty run of digits
ValidComponent(component_id) ==
    StartsWith(component_id, "C") /\ IsDigitStr(Slice(component_id, 1, Len(component_id)))

\* the remote of the shared modules repository
ModulesRemote == "git@gitlab.atopile.io:atopile/modules.git"

\* lines 210-213: where the footprints go
FootprintsDir(remote_url) ==
    IF remote_url = ModulesRemote THEN "footprints" ELSE "elec/footprints/footprints"

\* lines 226-236: the conversion tool runs; a non-zero exit status is an error
Converted(component_id, exit, rs, trace) ==
    IF exit = "missing"
    THEN Outcome(rs, "no_tool", RetNone, trace)
    ELSE Outcome(rs, IF exit = "0" THEN "" ELSE "tool_failed", RetNone,
                 trace \o <<Event("exit", component_id, exit)>>)

\* lines 203-226: the repository is located, its remote read, the tool invoked
Located(component_id, project, exit, rs) ==
    IF ~project.git
    THEN Outcome(rs, "no_repo", RetNone, <<Event("repo", component_id, "missing")>>)
    ELSE IF project.origin = ""
    THEN Outcome(rs, "no_remote", RetNone,
                 <<Event("repo", component_id, "found"), Event("remote", component_id, "")>>)
    ELSE Converted(component_id, exit, rs,
                   <<Event("repo", component_id, "found"),
                     Event("remote", component_id, project.origin),
                     Event("tool", component_id, FootprintsDir(project.origin))>>)

\* a slip: the id is validated as it was given
ValidatedAsGiven(given, component_id, project, exit, rs) ==
    IF ~ValidComponent(given)
    THEN Outcome(rs, "component_id", RetNone, <<>>)
    ELSE Located(component_id, project, exit, rs)

\* lines 199-200: an id that is not C<digits> is refused
Validated(given, component_id, project, exit, rs) ==
    IF ~ValidComponent(component_id)
    THEN Outcome(rs, "component_id", RetNone, <<>>)
    ELSE Located(component_id, project, exit, rs)

\* install_jlcpcb(component_id)
install_jlcpcb(component_id, project, exit, rs) ==
    Validated(component_id, Upper(component_id), project, exit, rs)

(***************************************************************************)
(* Inputs and initial states                                               *)
(***************************************************************************)
\* the characters of the generated inputs of split_module_spec
SplitAlphabet == {"a", " ", "@", "^", ">", "="}

RECURSIVE StringsUpTo(_)
StringsUpTo(n) ==
    IF n = 0 THEN {""}
    ELSE LET S == StringsUpTo(n - 1) IN S \cup {x \o c : x \in S, c \in SplitAlphabet}

SplitInputs == StringsUpTo(MaxLen) \cup {"name@1.2.3", "name>=1.0", "name", "name@HEAD^"}

\* the spec strings handed to set_dependency_to_ato_yaml
ManifestSpecs == {"pkg", "pkg^1.0.0", "pkg^2.0.0", "pkg ", "lib", "app@dev", "^1.0.0"}

\* the spec strings handed to install_dependency
ResolveSpecs ==
    {"pkg", "pkg^1.0.0", "pkg^3.0.0", "pkg@dev", "pkg@1.0.0", "pkg@nope", "pkg^latest",
     "pkg@dev^", "ghost"}

\* the arguments of `ato install <to_install>`
CliSpecs == {"pkg", "pkg^1.0.0", "pkg^3.0.0", "lib", "ghost"}

\* the tags a package may carry
PkgTags == {"1.0.0", "1.2.0", "2.0.0", "latest"}

ResolveRemotes == {[n \in RemotePkgs |-> IF n = "pkg" THEN T ELSE {"0.1.0"}] : T \in SUBSET PkgTags}

CliRemotes ==
    {[n \in RemotePkgs |-> IF n = "pkg" THEN T ELSE {"0.1.0"}] :
        T \in {{}, {"1.0.0", "1.2.0", "2.0.0", "latest"}}}

CliManifests ==
    {<<>>, <<"pkg^1.0.0", "lib">>, <<"lib", "pkg^1.0.0">>, <<"pkg^3.0.0", "lib">>,
     <<"ghost", "lib">>}

\* the working copies a package can be found in: none, or a copy whose tags are
\* those of the host or none yet, on the default branch or on one of its tags
Copies(tags) ==
    {Missing} \cup
    {[exists |-> TRUE, head |-> CommitOf(r), dirty |-> d, tags |-> tags] :
        r \in {"main"} \cup tags, d \in BOOLEAN} \cup
    {[exists |-> TRUE, head |-> CommitOf("main"), dirty |-> d, tags |-> {}] : d \in BOOLEAN}

\* the working copies the command-line runs start from
CliCopies(tags) ==
    {Missing} \cup
    {[exists |-> TRUE, head |-> CommitOf("main"), dirty |-> d, tags |-> tags] : d \in BOOLEAN}

\* the characters of the generated component ids
ComponentAlphabet == {"c", "C", "X", "1", "A"}

RECURSIVE ComponentsUpTo(_)
ComponentsUpTo(n) ==
    IF n = 0 THEN {""}
    ELSE LET S == ComponentsUpTo(n - 1) IN S \cup {x \o c : x \in S, c \in ComponentAlphabet}

\* the ids handed to install_jlcpcb
ComponentIds == ComponentsUpTo(ComponentLen) \cup {"c123", "X123", "C12A", "C"}

\* the ids of `ato install --jlcpcb <id>`
CliComponents == {"c123", "C12A"}

\* the project's repository as `Repo(".", search_parent_directories=True)` finds
\* it: none, one without remote, the shared modules repository, another project
Projects ==
    {[git |-> FALSE, origin |-> ""]} \cup
    {[git |-> TRUE, origin |-> u] : u \in {"", ModulesRemote, "git@example.com:me/board.git"}}

\* `ato install` runs inside the project's repository (line 33)
CliProjects == {p \in Projects : p.git}

\* the exit status of easyeda2kicad, or the executable is missing
ToolExits == {"0", "1", "missing"}

\* at most one entry per package name
UniqueNames(deps) ==
    \A i, j \in 1..Len(deps) : NameOf(deps[i]) = NameOf(deps[j]) => i = j

NotSplit == [done |-> FALSE, name |-> "", constraint |-> None]

(***************************************************************************)
(* The commands                                                            *)
(***************************************************************************)
\* lines 46-50: the spec written to the manifest
Pinned(to_install, sp, installed_semver) ==
    IF ~sp[2].some /\ installed_semver.kind # "none"
    THEN sp[1] \o "^" \o installed_semver.name
    ELSE to_install

\* a slip: the manifest is updated whether install_dependency failed or not
InstalledAnyway(to_install, upgrade, o, r) ==
    /\ repos' = o.rs
    /\ manifest' = r.file
    /\ last' = Last("install", to_install, upgrade, o, r.wrote, r.mem, 0)
    /\ UNCHANGED <<yamlExists, remote, sp_in, sp_out>>

\* lines 41-51, given what install_dependency did (o) and the manifest update (r)
Installed(to_install, upgrade, o, r) ==
    /\ repos' = o.rs
    /\ IF o.err # ""
       THEN /\ manifest' = manifest
            /\ last' = Last("install", to_install, upgrade, o, FALSE, manifest, 0)
       ELSE /\ manifest' = r.file
            /\ last' = Last("install", to_install, upgrade, o, r.wrote, r.mem, 0)
    /\ UNCHANGED <<yamlExists, remote, sp_in, sp_out>>

\* ato install <to_install> [--upgrade]   (lines 39-51)
Install(to_install, upgrade) ==
    Installed(to_install, upgrade,
              install_dependency(to_install, upgrade, yamlExists, remote, repos),
              set_dependency_to_ato_yaml(manifest,
                  Pinned(to_install, split_module_spec(to_install),
                         install_dependency(to_install, upgrade, yamlExists, remote, repos).ret)))

\* a slip: the bulk installer drops the manifest entries it could not install
InstalledAllPruned(upgrade, r) ==
    /\ repos' = r.out.rs
    /\ manifest' = (IF r.at = 0 THEN manifest ELSE SubSeq(manifest, 1, r.at - 1))
    /\ last' = Last("install_all", "", upgrade, r.out, r.at # 0, manifest, r.at)
    /\ UNCHANGED <<yamlExists, remote, sp_in, sp_out>>

InstalledAll(upgrade, r) ==
    /\ repos' = r.out.rs
    /\ last' = Last("install_all", "", upgrade, r.out, FALSE, manifest, r.at)
    /\ UNCHANGED <<yamlExists, manifest, remote, sp_in, sp_out>>

\* ato install [--upgrade]   (line 55)
InstallAll(upgrade) ==
    InstalledAll(upgrade,
                 install_dependencies_from_yaml(upgrade, yamlExists, manifest, remote, repos))

InstalledJlcpcb(component_id, o) ==
    /\ last' = Last("install_jlcpcb", component_id, FALSE, o, FALSE, manifest, 0)
    /\ UNCHANGED <<yamlExists, manifest, remote, repos, sp_in, sp_out>>

\* ato install --jlcpcb <to_install> (lines 36-38), and a call of install_jlcpcb
InstallJlcpcb(component_id, project, exit) ==
    InstalledJlcpcb(component_id, install_jlcpcb(component_id, project, exit, repos))

Resolved(module, upgrade, o) ==
    /\ repos' = o.rs
    /\ last' = Last("install_dependency", module, upgrade, o, FALSE, manifest, 0)
    /\ UNCHANGED <<yamlExists, manifest, remote, sp_in, sp_out>>

\* a call of install_dependency(module, top_level_path, upgrade)
InstallDependencyCall(module, upgrade) ==
    Resolved(module, upgrade, install_dependency(module, upgrade, yamlExists, remote, repos))

ManifestSet(module_spec, r) ==
    /\ IF ~yamlExists
       THEN /\ manifest' = manifest
            /\ last' = Last("set_dependency", module_spec, FALSE,
                             Outcome(repos, "config", RetNone, <<>>), FALSE, manifest, 0)
       ELSE /\ manifest' = r.file
            /\ last' = Last("set_dependency", module_spec, FALSE,
                             Outcome(repos, "", RetNone, <<>>), r.wrote, r.mem, 0)
    /\ UNCHANGED <<yamlExists, remote, repos, sp_in, sp_out>>

\* a call of set_dependency_to_ato_yaml(top_level_path, module_spec)
SetDependencyCall(module_spec) ==
    ManifestSet(module_spec, set_dependency_to_ato_yaml(manifest, module_spec))

Split(sp) == sp_out' = [done |-> TRUE, name |-> sp[1], constraint |-> sp[2]]

\* an evaluation of split_module_spec(sp_in)
SplitCall ==
    /\ ~sp_out.done
    /\ Split(split_module_spec(sp_in))
    /\ UNCHANGED <<yamlExists, manifest, remote, repos, last, sp_in>>

(***************************************************************************)
(* Specifications                                                          *)
(***************************************************************************)
\* the command line: a project, its manifest and its working copies
Init ==
    /\ yamlExists \in BOOLEAN
    /\ manifest \in (IF yamlExists THEN CliManifests ELSE {<<>>})
    /\ remote \in CliRemotes
    /\ repos \in [RemotePkgs -> UNION {CliCopies(remote[n]) : n \in RemotePkgs}]
    /\ \A n \in RemotePkgs : repos[n] \in CliCopies(remote[n])
    /\ yamlExists \/ \A n \in RemotePkgs : repos[n] = Missing
    /\ last = NoCommand
    /\ sp_in = ""
    /\ sp_out = NotSplit

Next ==
    \/ \E s \in CliSpecs, u \in BOOLEAN : Install(s, u)
    \/ \E u \in BOOLEAN : InstallAll(u)
    \/ \E c \in CliComponents, p \in CliProjects, e \in ToolExits : InstallJlcpcb(c, p, e)

Spec == Init /\ [][Next]_vars

\* the manifest editor alone
ManifestInit ==
    /\ yamlExists \in BOOLEAN
    /\ manifest = <<>>
    /\ remote \in {[n \in RemotePkgs |-> {}]}
    /\ repos = [n \in RemotePkgs |-> Missing]
    /\ last = NoCommand
    /\ sp_in = ""
    /\ sp_out = NotSplit

ManifestNext == \E s \in ManifestSpecs : SetDependencyCall(s)

SpecManifest == ManifestInit /\ [][ManifestNext]_vars

\* the repository resolver alone
ResolveInit ==
    /\ yamlExists \in BOOLEAN
    /\ manifest = <<>>
    /\ remote \in ResolveRemotes
    /\ repos \in [RemotePkgs -> UNION {Copies(remote[n]) : n \in RemotePkgs}]
    /\ repos["pkg"] \in Copies(remote["pkg"])
    /\ repos["lib"] = Missing
    /\ yamlExists \/ repos["pkg"] = Missing
    /\ last = NoCommand
    /\ sp_in = ""
    /\ sp_out = NotSplit

ResolveNext == \E s \in ResolveSpecs, u \in BOOLEAN : InstallDependencyCall(s, u)

SpecResolve == ResolveInit /\ [][ResolveNext]_vars

\* the spec splitter alone
SplitInit ==
    /\ yamlExists = TRUE
    /\ manifest = <<>>
    /\ remote \in {[n \in RemotePkgs |-> {}]}
    /\ repos = [n \in RemotePkgs |-> Missing]
    /\ last = NoCommand
    /\ sp_in \in SplitInputs
    /\ sp_out = NotSplit

SplitNext == SplitCall

SpecSplit == SplitInit /\ [][SplitNext]_vars

\* the footprint installer alone: one call, of any id in any project
FootprintInit ==
    /\ yamlExists = TRUE
    /\ manifest = <<>>
    /\ remote \in {[n \in RemotePkgs |-> {}]}
    /\ repos = [n \in RemotePkgs |-> Missing]
    /\ last = NoCommand
    /\ sp_in = ""
    /\ sp_out = NotSplit

FootprintNext ==
    /\ last.op = "none"
    /\ \E c \in ComponentIds, p \in Projects, e \in ToolExits : InstallJlcpcb(c, p, e)

SpecFootprint == FootprintInit /\ [][FootprintNext]_vars

(***************************************************************************)
(* Properties of the manifest editor (checked under SpecManifest)          *)
(***************************************************************************)
\* the last command was a successful set_dependency_to_ato_yaml call
SetDone == last.op = "set_dependency" /\ last.status = "ok"

\* the manifest it loaded held another spec of the package it was given
HeldOtherSpec ==
    \E i \in 1..Len(last.pre.manifest) :
        /\ NameOf(last.pre.manifest[i]) = NameOf(last.arg)
        /\ last.pre.manifest[i] # last.arg

\* the entries of the other packages, in their order
Others(deps, name) == SelectSeq(deps, LAMBDA x : NameOf(x) # name)

\* C1: a manifest with one entry per package name keeps, through every sequence of
\* set_dependency_to_ato_yaml calls, at most one entry per package name and no
\* string twice.
C1_OneEntryPerName ==
    /\ UniqueNames(manifest)
    /\ \A i, j \in 1..Len(manifest) : manifest[i] = manifest[j] => i = j

\* a call replaced the entry of a package in a manifest that holds another package
C1_Witness == SetDone /\ HeldOtherSpec /\ Len(manifest) >= 2

\* C6: a call with a spec whose package the manifest holds under a different spec
\* leaves one entry of that package, the new spec, at the end of the list; the
\* entries of the other packages keep their values and their order.
C6_ReplacedAtEnd ==
    (SetDone /\ HeldOtherSpec) =>
        /\ Len(manifest) >= 1
        /\ manifest[Len(manifest)] = last.arg
        /\ \A i \in 1..Len(manifest) :
              NameOf(manifest[i]) = NameOf(last.arg) => i = Len(manifest)
        /\ SubSeq(manifest, 1, Len(manifest) - 1) = Others(last.pre.manifest, NameOf(last.arg))

\* "pkg^2.0.0" replaced "pkg^1.0.0", which stood before the entry of another package
C6_Witness ==
    /\ SetDone
    /\ last.arg = "pkg^2.0.0"
    /\ last.pre.manifest = <<"pkg^1.0.0", "lib">>
    /\ manifest = <<"lib", "pkg^2.0.0">>

\* C7: a call with a spec the list holds verbatim changes neither the list nor the
\* file and writes nothing; the file is written exactly when the list differs from
\* the one loaded, and then holds that list.
C7_WriteOnlyOnChange ==
    SetDone =>
        /\ InList(last.pre.manifest, last.arg) =>
              (~last.wrote /\ manifest = last.pre.manifest /\ last.mem = last.pre.manifest)
        /\ last.wrote <=> (last.mem # last.pre.manifest)
        /\ manifest = last.mem

\* a spec was added again to a manifest of two entries, and nothing was written
C7_Witness ==
    /\ SetDone
    /\ InList(last.pre.manifest, last.arg)
    /\ Len(last.pre.manifest) >= 2
    /\ ~last.wrote


(***************************************************************************)
(* Properties of install_dependency (checked under SpecResolve)            *)
(***************************************************************************)
\* the last command was a call of install_dependency
ResolveDone == last.op = "install_dependency"

\* the package and the version spec of the call
CallName == NameOf(last.arg)
CallSpec == SpecOrAny(split_module_spec(last.arg)[2])

\* the steps of the last command with the given name
Steps(ev) == {i \in 1..Len(last.trace) : last.trace[i].ev = ev}

\* the working copy of the call's package before and after it
CopyBefore == WorkingCopy(last.pre.repos, CallName)
CopyAfter == WorkingCopy(repos, CallName)

\* the versions of the tags of a working copy that parse and match the version spec
Matching(wc, spec) ==
    {parse(t).v : t \in {u \in wc.tags : parse(u).ok /\ MatchDefined(spec) /\ match(spec, parse(u).v)}}

\* a tag set without the tags that do not parse
OnlyVersions(tags) == {t \in tags : parse(t).ok}

\* C2: a call that reaches the dirty check on a working copy with uncommitted
\* changes fails with the "uncommitted changes" error, checks nothing out and leaves
\* the head commit and the work tree as they were.
C2_DirtyAborts ==
    (ResolveDone /\ \E i \in Steps("dirty_check") : last.trace[i].ref = "dirty") =>
        /\ last.status = "error"
        /\ last.err = "dirty"
        /\ Steps("checkout") = {}
        /\ CopyAfter.head = CopyBefore.head
        /\ CopyAfter.dirty = CopyBefore.dirty
        /\ CopyAfter.exists = CopyBefore.exists

\* an upgrade of a dirty copy that is not on the selected tag fetched new tags and
\* then stopped at the dirty check
C2_Witness ==
    /\ ResolveDone
    /\ last.err = "dirty"
    /\ last.arg = "pkg^1.0.0"
    /\ CopyBefore.tags # CopyAfter.tags
    /\ "1.2.0" \in CopyAfter.tags
    /\ CopyAfter.head = CommitOf("main")

\* C3: with no tag that parses as a version and no "@" in the version spec, the call
\* raises nothing on a clean working copy: it warns, checks out the default branch
\* and returns None.
C3_NoTagsFallsBack ==
    (/\ ResolveDone
     /\ Steps("warning") # {}
     /\ \E i \in Steps("dirty_check") : last.trace[i].ref = "clean") =>
        /\ last.status = "ok"
        /\ last.ret = RetNone
        /\ \E i \in Steps("checkout") : last.trace[i].ref = "main"

\* C4: on an existing working copy without upgrade the call returns None and does
\* nothing: no fetch, no tag evaluation, no dirty check, no checkout, and every
\* working copy is as it was.
C4_NoUpgradeNoTouch ==
    (ResolveDone /\ CopyBefore.exists /\ ~last.upgrade) =>
        /\ last.status = "ok"
        /\ last.ret = RetNone
        /\ last.trace = <<>>
        /\ repos = last.pre.repos

\* a dirty copy whose tags cannot meet the requested version spec was left alone
C4_Witness ==
    /\ ResolveDone
    /\ ~last.upgrade
    /\ last.arg = "pkg^3.0.0"
    /\ CopyBefore.exists
    /\ CopyBefore.dirty
    /\ "1.0.0" \in CopyBefore.tags
    /\ last.status = "ok"

\* C5: without "@" in the version spec and with a tag that parses, the ref checked
\* out is the tag of the highest version among the parsed tags that match the spec;
\* the tags that do not parse are skipped: the call ends as it does on the same
\* repository without them.
C5_MaxMatchingTag ==
    (/\ ResolveDone
     /\ ~Contains(CallSpec, "@")
     /\ OnlyVersions(CopyAfter.tags) # {}) =>
        /\ \A i \in Steps("checkout") :
              /\ last.trace[i].ref \in CopyAfter.tags
              /\ parse(last.trace[i].ref).ok
              /\ parse(last.trace[i].ref).v \in Matching(CopyAfter, CallSpec)
              /\ \A w \in Matching(CopyAfter, CallSpec) : VLeq(w, parse(last.trace[i].ref).v)
              /\ CopyAfter.head = CommitOf(last.trace[i].ref)
        /\ last.err \notin {"unbound", "checkout"}
        /\ LET o == install_dependency(last.arg, last.upgrade, yamlExists,
                                       [n \in DOMAIN remote |-> OnlyVersions(remote[n])],
                                       [n \in DOMAIN last.pre.repos |->
                                           [last.pre.repos[n] EXCEPT !.tags = OnlyVersions(@)]])
           IN  /\ o.err = last.err
               /\ o.ret = last.ret
               /\ o.trace = last.trace
               /\ WorkingCopy(o.rs, CallName).head = CopyAfter.head

\* tags 1.0.0, 1.2.0, 2.0.0 and "latest" with ^1.0.0: 1.2.0 was checked out
C5_Witness ==
    /\ ResolveDone
    /\ last.arg = "pkg^1.0.0"
    /\ CopyAfter.tags = {"1.0.0", "1.2.0", "2.0.0", "latest"}
    /\ \E i \in Steps("checkout") : last.trace[i].ref = "1.2.0"
    /\ CopyAfter.head = CommitOf("1.2.0")
    /\ CopyBefore.head # CopyAfter.head


\* the last command was a successful install_dependency call that checked a ref out
CheckedOutBefore == ResolveDone /\ last.status = "ok" /\ Steps("checkout") # {}

\* the ref a command checked out
RefOf(trace) == trace[CHOOSE i \in 1..Len(trace) : trace[i].ev = "checkout"].ref

\* a command checked out `ref`, reported "Already on the best option" and left the
\* head commit of the package's working copy at `head`
SameRefAgain(l, rs, name, ref, head) ==
    /\ l.status = "ok"
    /\ \E i \in 1..Len(l.trace) : l.trace[i] = Event("checkout", name, ref)
    /\ \E i \in 1..Len(l.trace) : l.trace[i] = Event("report", name, "already")
    /\ WorkingCopy(rs, name).head = head

\* C11 as stated: a call of install_dependency that follows a successful call with
\* the same spec (same remote tags, clean copy on the best ref) checks the same ref
\* out, keeps the head commit and reports "already on the best option", whatever
\* the upgrade flag of the second call.
C11_RerunChecksOutSame ==
    [][(CheckedOutBefore /\ last'.arg = last.arg) =>
          SameRefAgain(last', repos', CallName, RefOf(last.trace), CopyAfter.head)]_vars

\* C11, amended: the second call does so when it is made with upgrade; without
\* upgrade it returns at once, without any step, and the head commit stays as well.
C11_RerunWithUpgrade ==
    [][(CheckedOutBefore /\ last'.arg = last.arg) =>
          IF last'.upgrade
          THEN SameRefAgain(last', repos', CallName, RefOf(last.trace), CopyAfter.head)
          ELSE /\ last'.status = "ok"
               /\ last'.trace = <<>>
               /\ repos' = repos]_vars

\* a second `pkg@dev` with upgrade found the copy on dev, which only a first
\* `pkg@dev` puts it on, checked dev out again and reported no change
C11_Witness ==
    /\ ResolveDone
    /\ last.arg = "pkg@dev"
    /\ last.upgrade
    /\ CopyBefore.head = CommitOf("dev")
    /\ SameRefAgain(last, repos, "pkg", "dev", CommitOf("dev"))

\* the checkout target of the last command was chosen by semver matching
ChosenBySemver ==
    /\ last.status = "ok"
    /\ Steps("checkout") # {}
    /\ ~Contains(CallSpec, "@")
    /\ Steps("warning") = {}

\* C12: install_dependency returns the selected Version, the parsed semantic version
\* and not the tag reference, exactly when the checkout target was chosen by semver
\* matching; it returns None for an explicit "@ref", for the no-tags fallback and
\* when the install was skipped.
C12_ReturnsVersion ==
    ResolveDone =>
        IF ChosenBySemver
        THEN last.ret = RetVersion(parse(RefOf(last.trace)).v)
        ELSE last.ret = RetNone

\* the package and the ref of a user spec of the form name@ref
AtName == Strip(Slice(last.arg, 0, Find(last.arg, "@")))
AtRef == Slice(last.arg, Find(last.arg, "@") + 1, Len(last.arg))

\* the last command was given name@ref for a package the host serves and had to
\* resolve it: the working copy was missing, or clean and to be upgraded
AtRefCall ==
    /\ ResolveDone
    /\ Contains(last.arg, "@")
    /\ yamlExists
    /\ CanClone(remote, AtName)
    /\ ~WorkingCopy(last.pre.repos, AtName).dirty
    /\ last.upgrade \/ ~WorkingCopy(last.pre.repos, AtName).exists

\* C13: for every user spec name@ref, whatever characters ref contains and whatever
\* the tags, install_dependency matches no version and checks out the literal text
\* after "@" in the working copy of the package `name`; a ref git cannot resolve
\* fails at the checkout.
C13_AtRefCheckedOutLiterally ==
    AtRefCall =>
        /\ last.ret = RetNone
        /\ WorkingCopy(repos, AtName).exists
        /\ \A i \in 1..Len(last.trace) : last.trace[i].pkg = AtName
        /\ IF Resolvable(WorkingCopy(repos, AtName), AtRef)
           THEN /\ last.status = "ok"
                /\ \E i \in Steps("checkout") : last.trace[i].ref = AtRef
                /\ WorkingCopy(repos, AtName).head = CommitOf(AtRef)
           ELSE /\ last.err = "checkout"
                /\ Steps("checkout") = {}

\* C17: in every call of install_dependency the dirty check comes after the clone
\* or fetch and after the tags are read, and immediately before the checkout; an
\* upgrade of an existing dirty copy still fetches and then aborts; no checkout
\* happens without a dirty check in the same call that found the copy clean.
C17_DirtyCheckBeforeCheckout ==
    ResolveDone =>
        /\ \A i \in Steps("dirty_check") :
              /\ \E j \in Steps("clone") \cup Steps("fetch") : j < i
              /\ \E j \in Steps("tags") : j < i
              /\ \A j \in Steps("clone") \cup Steps("fetch") \cup Steps("tags") \cup
                          Steps("warning") : j < i
              /\ \A j \in Steps("checkout") : j = i + 1
        /\ \A j \in Steps("checkout") :
              j > 1 /\ last.trace[j - 1] = Event("dirty_check", CallName, "clean")
        /\ (last.upgrade /\ CopyBefore.exists /\ CopyBefore.dirty) =>
              /\ Steps("fetch") # {}
              /\ last.status = "error"
              /\ Steps("checkout") = {}
              /\ CopyAfter.head = CopyBefore.head

\* `pkg@dev` with upgrade on a dirty copy: fetched, tags read, found dirty, aborted
C17_Witness ==
    /\ ResolveDone
    /\ last.upgrade
    /\ CopyBefore.exists
    /\ CopyBefore.dirty
    /\ last.trace = <<Event("fetch", "pkg", ""), Event("tags", "pkg", ""),
                      Event("dirty_check", "pkg", "dirty")>>
    /\ last.arg = "pkg@dev"
    /\ last.err = "dirty"

\* the last command read the tags of a working copy that holds version tags, none
\* of which meets the version spec, and the version spec holds no "@"
NoneMatches ==
    /\ ResolveDone
    /\ Steps("tags") # {}
    /\ ~Contains(CallSpec, "@")
    /\ OnlyVersions(CopyAfter.tags) # {}
    /\ Matching(CopyAfter, CallSpec) = {}

\* C19: without "@" in the constraint and with version tags none of which matches
\* it, install_dependency fails before the dirty check and before any checkout: the
\* head of the working copy is the one the copy had, or the one the clone gave it,
\* and no version is returned.
C19_NoMatchFailsEarly ==
    NoneMatches =>
        /\ last.status = "error"
        /\ Steps("dirty_check") = {}
        /\ Steps("checkout") = {}
        /\ CopyAfter.head = (IF CopyBefore.exists THEN CopyBefore.head ELSE CommitOf("main"))
        /\ CopyAfter.dirty = CopyBefore.dirty
        /\ last.ret = RetNone

\* `pkg^3.0.0` with upgrade on a clean copy that is on tag 1.0.0 and has 2.0.0 as
\* its highest version: fetched, failed, and still on 1.0.0
C19_Witness ==
    /\ NoneMatches
    /\ last.arg = "pkg^3.0.0"
    /\ last.err = "no_valid_version"
    /\ Steps("fetch") # {}
    /\ "2.0.0" \in CopyAfter.tags
    /\ ~CopyBefore.dirty
    /\ CopyAfter.head = CommitOf("1.0.0")

(***************************************************************************)
(* Properties of split_module_spec (checked under SpecSplit)               *)
(***************************************************************************)
\* the offsets at which a candidate token occurs
TokenOffsets(spec) ==
    {Find(spec, Splitters[k]) : k \in {j \in 1..Len(Splitters) : Contains(spec, Splitters[j])}}

\* the lowest of a non-empty set of offsets
Lowest(S) == CHOOSE i \in S : \A j \in S : i <= j

\* the split at the leftmost candidate token
LeftmostSplit(spec) ==
    IF TokenOffsets(spec) = {} THEN <<spec, None>>
    ELSE <<Strip(Slice(spec, 0, Lowest(TokenOffsets(spec)))),
           Some(Strip(Slice(spec, Lowest(TokenOffsets(spec)), Len(spec))))>>

\* C9: split_module_spec splits at the leftmost offset at which a version operator,
\* " " or "@" occurs: the name is the trimmed text before it, the constraint the
\* trimmed text from it on, and without any token the result is (spec, None).
C9_SplitsAtLeftmost ==
    sp_out.done =>
        /\ sp_out.name = LeftmostSplit(sp_in)[1]
        /\ sp_out.constraint = LeftmostSplit(sp_in)[2]

\* the characters the version operators are made of
OperatorChars ==
    UNION {{Slice(OPERATORS[k], i, i + 1) : i \in 0..(Len(OPERATORS[k]) - 1)} :
              k \in 1..Len(OPERATORS)}

\* C16: for every input string the name split_module_spec returns is non-empty and
\* holds no version-operator character and no whitespace; the constraint, when not
\* None, is non-empty and trimmed (it begins with the operator, the "@" or the token
\* after the blank at which the spec was split).
C16_WellFormedParts ==
    sp_out.done =>
        /\ sp_out.name # ""
        /\ \A c \in OperatorChars \cup {" "} : ~Contains(sp_out.name, c)
        /\ sp_out.constraint.some =>
              /\ sp_out.constraint.val # ""
              /\ Strip(sp_out.constraint.val) = sp_out.constraint.val

(***************************************************************************)
(* Properties of install_jlcpcb (checked under SpecFootprint)              *)
(***************************************************************************)
\* the last command was a call of install_jlcpcb
JlcpcbDone == last.op = "install_jlcpcb"

\* "C" followed by one or more of the digits 0..9
IsComponentId(s) ==
    /\ Len(s) >= 2
    /\ Slice(s, 0, 1) = "C"
    /\ \A i \in 1..(Len(s) - 1) :
          Slice(s, i, i + 1) \in {"0", "1", "2", "3", "4", "5", "6", "7", "8", "9"}

\* the id was refused
Rejected == last.err = "component_id"

\* C14: install_jlcpcb upper-cases the component id and accepts it exactly when it
\* is "C" followed by one or more digits ("c123" is accepted as "C123"; "X123",
\* "C12A" and "C" are refused); a refused id fails before the repository is located,
\* the remote read or the tool invoked; for an accepted id the call succeeds exactly
\* when the tool exits with status zero.
C14_ValidatesThenRuns ==
    JlcpcbDone =>
        /\ ~Rejected <=> IsComponentId(Upper(last.arg))
        /\ last.arg = "c123" => ~Rejected
        /\ last.arg \in {"X123", "C12A", "C"} => Rejected
        /\ Rejected => (last.status = "error" /\ last.trace = <<>>)
        /\ ~Rejected =>
              /\ last.status = "ok" <=> \E i \in Steps("exit") : last.trace[i].ref = "0"
              /\ \A i \in 1..Len(last.trace) : last.trace[i].pkg = Upper(last.arg)

\* "c123" went to the tool as C123, which exited with status zero
C14_Witness ==
    /\ JlcpcbDone
    /\ last.arg = "c123"
    /\ last.status = "ok"
    /\ \E i \in Steps("tool") : last.trace[i].pkg = "C123"
    /\ \E i \in Steps("exit") : last.trace[i] = Event("exit", "C123", "0")

(***************************************************************************)
(* Properties of the command line (checked under Spec)                     *)
(***************************************************************************)
\* the last command was `ato install <to_install>` and ended without error
InstallDone == last.op = "install" /\ last.status = "ok"

\* the manifest entries of a package
EntriesOf(deps, name) == SelectSeq(deps, LAMBDA x : NameOf(x) = name)

\* the specs name^<version> of the versions whose tag the working copy is on
PinsOf(name, wc) ==
    {name \o "^" \o VersionStr(parse(t).v) :
        t \in {u \in wc.tags : parse(u).ok /\ CommitOf(u) = wc.head}}

\* C8: after a successful `ato install <name>` without constraint the manifest holds
\* one entry of the package, name^<version> of the version the working copy is on;
\* a pinned entry is never replaced by a bare one.
C8_PinnedAfterInstall ==
    (InstallDone /\ ~split_module_spec(last.arg)[2].some) =>
        /\ Len(EntriesOf(manifest, last.arg)) = 1
        /\ EntriesOf(manifest, last.arg)[1] \in PinsOf(last.arg, WorkingCopy(repos, last.arg))

\* the last command was `ato install` over the manifest
AllDone == last.op = "install_all" /\ last.err # "config"

\* the dependencies the loop reached: all of them, or those up to the failing one
Reached == IF last.at = 0 THEN Len(manifest) ELSE last.at

\* the position in the manifest of the dependency a step belongs to
DepOf(step) == CHOOSE i \in 1..Len(manifest) : NameOf(manifest[i]) = step.pkg

\* the working copies as the turn of the package `name` found them: its own copy as
\* before the command, the others as the command left them
BeforeTurn(name) ==
    [n \in DOMAIN repos |-> IF n = name THEN last.pre.repos[n] ELSE repos[n]]

\* C10: `ato install` takes the dependencies in list order, one at a time, and stops
\* at the first that fails: the error propagates, the dependencies before it are
\* done, and no working copy of a later one is cloned, fetched or checked out.
C10_StopsAtFirstFailure ==
    AllDone =>
        /\ (last.status = "error") <=> (last.at # 0)
        /\ last.at # 0 =>
              last.err = install_dependency(manifest[last.at], last.upgrade, TRUE, remote,
                                            BeforeTurn(NameOf(manifest[last.at]))).err
        /\ \A k \in 1..Len(last.trace) :
              /\ \E i \in 1..Reached : NameOf(manifest[i]) = last.trace[k].pkg
              /\ \A j \in 1..(k - 1) : DepOf(last.trace[j]) <= DepOf(last.trace[k])
        /\ \A i \in 1..(Reached - 1) :
              \/ WorkingCopy(last.pre.repos, NameOf(manifest[i])).exists /\ ~last.upgrade
              \/ \E k \in 1..Len(last.trace) :
                    last.trace[k].ev = "checkout" /\ last.trace[k].pkg = NameOf(manifest[i])
        /\ \A i \in (Reached + 1)..Len(manifest) :
              WorkingCopy(repos, NameOf(manifest[i])) =
                  WorkingCopy(last.pre.repos, NameOf(manifest[i]))

\* the first of two dependencies failed after it was cloned, and the second, which
\* has no working copy, was not cloned
C10_Witness ==
    /\ AllDone
    /\ Len(manifest) = 2
    /\ last.at = 1
    /\ \E k \in 1..Len(last.trace) : last.trace[k].ev = "clone"
    /\ ~WorkingCopy(last.pre.repos, NameOf(manifest[2])).exists
    /\ ~WorkingCopy(repos, NameOf(manifest[2])).exists

\* the last command was `ato install` over the manifest or `ato install --jlcpcb`
OtherModeDone == last.op \in {"install_all", "install_jlcpcb"}

\* C15: only the install-by-name mode modifies the manifest file: install-all and
\* install-footprint leave its content as it was, whether they succeed or fail.
C15_OnlyByNameWrites ==
    /\ OtherModeDone => (manifest = last.pre.manifest /\ ~last.wrote)
    /\ (last.op # "none" /\ manifest # last.pre.manifest) => last.op = "install"

\* `ato install --upgrade` failed at the first of two dependencies after fetching
\* it; the manifest still holds both
C15_Witness ==
    /\ last.op = "install_all"
    /\ last.status = "error"
    /\ last.at = 1
    /\ Steps("fetch") # {}
    /\ Len(manifest) = 2
    /\ manifest = last.pre.manifest

\* the last command was `ato install <to_install>` and install_dependency failed
InstallFailed == last.op = "install" /\ last.status = "error"

\* C18: in the install-by-name mode the manifest is updated only after
\* install_dependency returned without error: when it fails (clone failure, dirty
\* working copy, no selectable version) the manifest file is as it was before the
\* command.
C18_FailureKeepsManifest ==
    InstallFailed =>
        /\ last.err \in {"config", "clone", "dirty", "match", "no_valid_version", "unbound",
                          "checkout"}
        /\ manifest = last.pre.manifest
        /\ ~last.wrote

\* `ato install pkg^3.0.0 --upgrade` found no version to select; the manifest, which
\* holds another spec of pkg, was not touched
C18_Witness ==
    /\ InstallFailed
    /\ last.arg = "pkg^3.0.0"
    /\ last.err = "no_valid_version"
    /\ ~InList(manifest, last.arg)
    /\ \E i \in 1..Len(manifest) : NameOf(manifest[i]) = "pkg"
    /\ manifest = last.pre.manifest

====
